---- MODULE Spec2Model ----
(***************************************************************************)
(* Tile cache manager of elrs-map (tiles.go): the in-memory tile map, the  *)
(* in-flight set, the disk cache, the manager's lock, the goroutines that  *)
(* call into the manager and the loadTile goroutines started by GetTile,   *)
(* plus the viewport tile enumeration GetTilesForView.                     *)
(*                                                                         *)
(* Granularity: one step per locked section of the code and one step per   *)
(* I/O operation done outside the lock.  The write lock is held across     *)
(* steps by ClearCache and by loadTile's publish (lock, then the map       *)
(* write and unlock); every other locked section is taken in one step that *)
(* is enabled only while the lock is available.                            *)
(***************************************************************************)
EXTENDS Integers, Sequences, FiniteSets, TLC

\* ---------------------------------------------------------------- constants
TileSize == 256
MaxZoom == 19
MinZoom == 1

MapSourceStreet == 0
MapSourceSatellite == 1
Sources == {MapSourceStreet, MapSourceSatellite}

\* ------------------------------------------------------------------- bounds
\* Calls into the manager over a behaviour (GetTile, ClearCache, SetSource,
\* ToggleSource); each GetTile starts at most one loadTile goroutine.
MaxCalls == 3

\* Calls of ClearCache and ToggleSource over a behaviour of the render loop
\* (whose frames are not counted).
MaxEvents == 1

\* Center tiles tried: within MaxOff tiles of either edge of the tile plane.
MaxOff == 1
\* Viewport sizes tried: up to MaxView whole tiles, plus 0 or 255 pixels.
MaxView == 4
\* StartTelemetryStream calls that start a goroutine, over a behaviour.
MaxStarts == 2
\* Calls of App.Update over a behaviour.
MaxUpdates == 2
\* The number of times the clock advances while the GPIO poll loop runs.
MaxTicks == 4

\* The goroutines calling into the manager.
Threads == {"t1", "t2"}
\* The tile coordinates requested.
Coords == {[X |-> 0, Y |-> 0, Z |-> 1]}
\* TileCacheKey
Keys == [Coord : Coords, Source : Sources]
TaskIds == 1..MaxCalls

\* Nil is the nil *ebiten.Image.
Nil == [id |-> 0, from |-> "nil"]

VARIABLES
    source,     \* tm.source
    tiles,      \* tm.tiles: key -> image, Nil where the map has no entry
    loading,    \* tm.loading: the keys marked in-flight
    mu,         \* tm.mu: TRUE while the write lock is held across steps
    disk,       \* the cache file of each key: "none", "good" (decodes), "bad"
    thr,        \* each caller: position inside the manager and its locals
    tasks,      \* each loadTile goroutine: position, key, image, I/O done
                \* (disk read, request, the body received, the file write)
    calls,      \* calls into the manager started so far
    firstPub,   \* history: first image published per key since the last clear
    trail,      \* history: the operation that just ended, and the GetTile
                \* that directly followed it with what it returned
    view,       \* the last GetTilesForView call: arguments and result
    renderers,  \* the goroutines that call GetTile (fixed over a behaviour)
    appZoom,    \* app.zoom
    handler,    \* each goroutine's position inside a zoom handler
    grpc,       \* the GRPCClient: its fields, its callers, its stream goroutines
    app,        \* the App's follow mode, view center and flight path, and
                \* the position of Update
    gpio        \* the GPIOController: stop channel, poll loop, button, clock

\* The application around the tile manager.
appVars == <<appZoom, handler, grpc, app, gpio>>
\* The tile manager.
tmVars == <<source, tiles, loading, mu, disk, thr, tasks, calls, firstPub, trail, view, renderers>>

vars == <<source, tiles, loading, mu, disk, thr, tasks, calls, firstPub, trail, view, renderers,
          appZoom, handler, grpc, app, gpio>>

AnyKey == CHOOSE k \in Keys : TRUE
\* What a GetTile call did: its key, the image returned, the loadTile it
\* started (0: none), and whether it began after a publish for its key.
NoResult == [valid |-> FALSE, key |-> AnyKey, ret |-> Nil, spawned |-> 0,
             late |-> FALSE]
Result(k, img, task, late) ==
    [valid |-> TRUE, key |-> k, ret |-> img, spawned |-> task, late |-> late]
NoTrail == [kind |-> "none", keys |-> {}, infl |-> {}, who |-> "none",
            got |-> NoResult]
NoView == [zoom |-> 0, cx |-> 0, cy |-> 0, w |-> 0, h |-> 0, done |-> FALSE,
           coords |-> <<>>]

IdleThread == [pc |-> "idle", key |-> AnyKey, late |-> FALSE]
UnusedTask == [pc |-> "unused", key |-> AnyKey, img |-> Nil,
               diskres |-> "none", http |-> FALSE, body |-> "none",
               saved |-> "none"]
DoneTask == [UnusedTask EXCEPT !.pc = "done"]

\* ---------------------------------------------------------- the application
DefaultZoom == 15
\* No zoom request is being handled.
NoHandler == [pc |-> "idle", via |-> "none", dir |-> 0]
\* The stream goroutines started over a behaviour.
GorIds == 1..MaxStarts
\* A caller of the client: where it is, and whether inside App.Shutdown.
IdleCaller == [pc |-> "idle", sd |-> FALSE]
\* A streamTelemetry goroutine: where it is, and the context it copied.
NoGor == [pc |-> "unused", ctx |-> 0]
\* NewGRPCClient: no connection, not streaming, ctx and cancel nil (context
\* 0), c.mu free. Contexts are numbered in the order WithCancel made them.
NewGRPCClient ==
    [mu |-> "free", streaming |-> FALSE, ctx |-> 0, cancelled |-> {},
     conn |-> FALSE, Connected |-> FALSE,
     caller |-> [t \in Threads |-> IdleCaller],
     gor |-> [g \in GorIds |-> NoGor]]
\* maxPathLen of NewApp
maxPathLen == 1000
\* A position: latitude and longitude, as whole numbers standing for the
\* float values.
Pos(lat, lon) == [lat |-> lat, lon |-> lon]
\* The default view center of NewApp (-22.9064, -47.0616).
DefaultCenter == Pos(-22, -47)
\* A telemetry snapshot with no GPS data (the zero TelemetryState).
NoFix == [HasGPS |-> FALSE, Latitude |-> 0, Longitude |-> 0]
\* NewApp's view state: follow mode on, default center, no flight path, not
\* dragging; Update not running. upd counts the Updates begun; snap is the
\* telemetry snapshot the last Update took.
NewAppState ==
    [pc |-> "idle", followAircraft |-> TRUE, center |-> DefaultCenter,
     flightPath |-> <<>>, seen |-> <<>>, dragging |-> FALSE, drag |-> DefaultCenter,
     snap |-> NoFix, upd |-> 0]
\* AddButton: debounceMs: 50
debounceMs == 50
\* The wall clock (Unix milliseconds) when the program starts: far above
\* debounceMs, as any present-day time.Now().UnixMilli() is.
Epoch == 1000
\* AddButton: a button with the zero lastState (released) and lastChange.
NewGPIOButton == [lastState |-> FALSE, lastChange |-> 0]
\* NewGPIOController with the FOLLOW button of SetupDefaultButtons: not
\* enabled, the stop channel open, no poll goroutine. stop is where the
\* caller of Stop is; exported says whether the pin is exported in sysfs;
\* level is the pin's electrical level (0 = pressed); tick says whether the
\* ticker's channel holds a tick; now and value are pollButtons' locals;
\* fires counts the callbacks run since the button last went down; ticks
\* counts the times the clock has advanced.
NewGPIOController ==
    [enabled |-> FALSE, stopChan |-> "open", exported |-> FALSE,
     stop |-> "idle", loop |-> "none", tick |-> FALSE, clock |-> Epoch,
     now |-> 0, value |-> 1, btn |-> NewGPIOButton, level |-> 1,
     fires |-> 0, ticks |-> 0]

\* NewApp: the default zoom, follow mode on, no flight path; the client not
\* connected; the GPIO controller not started.
NewApp ==
    /\ appZoom = DefaultZoom
    /\ handler = [t \in Threads |-> NoHandler]
    /\ grpc = NewGRPCClient
    /\ app = NewAppState
    /\ gpio = NewGPIOController

\* NewTileManager: empty maps, satellite source, free lock; the cache
\* directory holds whatever earlier runs left in it.
NewTileManager ==
    /\ source = MapSourceSatellite
    /\ tiles = [k \in Keys |-> Nil]
    /\ loading = {}
    /\ mu = FALSE
    /\ disk \in [Keys -> {"none", "good", "bad"}]
    /\ thr = [t \in Threads |-> IdleThread]
    /\ tasks = [i \in TaskIds |-> UnusedTask]
    /\ calls = 0
    /\ firstPub = [k \in Keys |-> Nil]
    /\ trail = NoTrail

\* Any goroutine may call GetTile.
Init ==
    /\ NewTileManager
    /\ view = NoView
    /\ renderers = Threads
    /\ NewApp

\* As the application runs it: GetTile is called from the render loop only;
\* the other goroutine (the GPIO poll loop) never calls it.
InitRender ==
    /\ NewTileManager
    /\ view = NoView
    /\ renderers = {"t1"}
    /\ NewApp

\* ------------------------------------------------------------------ RWMutex
\* Lock and RLock return only while no writer holds the lock; readers never
\* hold it across a step.
CanLock == ~mu
CanRLock == ~mu

\* ---------------------------------------------------------------- histories
\* A step of caller t inside GetTile keeps the trail only while t's call is
\* the one that directly followed the recorded operation.
KeepTrail(t) == trail' = IF trail.who = t THEN trail ELSE NoTrail
\* The GetTile of caller t returns.
Return(t, g) ==
    trail' = [(IF trail.who = t THEN trail ELSE NoTrail) EXCEPT !.who = t, !.got = g]
Break == trail' = NoTrail
Outstanding(i) == tasks[i].pc \notin {"unused", "done"}

\* ------------------------------------------------------------------ GetTile
\* source := tm.GetSource(); key := TileCacheKey{coord, source}
GetSource(t, c) ==
    /\ thr[t].pc = "idle"
    /\ t \in renderers
    /\ calls < MaxCalls
    /\ CanRLock
    /\ calls' = calls + 1
    /\ LET k == [Coord |-> c, Source |-> source] IN
         thr' = [thr EXCEPT ![t] = [pc |-> "Check", key |-> k,
                                    late |-> firstPub[k] # Nil]]
    /\ trail' = IF trail.kind \in {"clear", "fail"} /\ trail.who = "none"
                THEN [trail EXCEPT !.who = t] ELSE NoTrail
    /\ UNCHANGED <<source, tiles, loading, mu, disk, tasks, firstPub, view, renderers, appVars>>

\* The mutant: the in-flight test left out.
LookupNoLoading(k) ==
    IF tiles[k] # Nil THEN "hit" ELSE "miss"

\* What the read-locked section of GetTile finds for key k.
Lookup(k) ==
    IF tiles[k] # Nil THEN "hit"
    ELSE IF k \in loading THEN "loading"
    ELSE "miss"

\* The read-locked section: return the tile, return nil, or go on to mark.
GetTileCheck(t) ==
    /\ thr[t].pc = "Check"
    /\ CanRLock
    /\ LET k == thr[t].key IN
         \/ /\ Lookup(k) = "hit"
            /\ thr' = [thr EXCEPT ![t] = IdleThread]
            /\ Return(t, Result(k, tiles[k], 0, thr[t].late))
         \/ /\ Lookup(k) = "loading"
            /\ thr' = [thr EXCEPT ![t] = IdleThread]
            /\ Return(t, Result(k, Nil, 0, thr[t].late))
         \/ /\ Lookup(k) = "miss"
            /\ thr' = [thr EXCEPT ![t].pc = "Mark"]
            /\ KeepTrail(t)
    /\ UNCHANGED <<source, tiles, loading, mu, disk, tasks, calls, firstPub, view, renderers, appVars>>

NextTask == CHOOSE i \in TaskIds : tasks[i].pc = "unused" /\
                \A j \in TaskIds : j < i => tasks[j].pc # "unused"

\* The mutant: the goroutine is started without marking the key in-flight.
GetTileMarkForgets(t) ==
    /\ thr[t].pc = "Mark"
    /\ CanLock
    /\ \E i \in TaskIds : tasks[i].pc = "unused"
    /\ tasks' = [tasks EXCEPT ![NextTask] =
                    [UnusedTask EXCEPT !.pc = "disk", !.key = thr[t].key]]
    /\ thr' = [thr EXCEPT ![t] = IdleThread]
    /\ Return(t, Result(thr[t].key, Nil, NextTask, thr[t].late))
    /\ UNCHANGED <<source, tiles, loading, mu, disk, calls, firstPub, view, renderers, appVars>>

\* Lock, tm.loading[key] = true, Unlock, go tm.loadTile(coord, source),
\* return nil
GetTileMark(t) ==
    /\ thr[t].pc = "Mark"
    /\ CanLock
    /\ \E i \in TaskIds : tasks[i].pc = "unused"
    /\ loading' = loading \cup {thr[t].key}
    /\ tasks' = [tasks EXCEPT ![NextTask] =
                    [UnusedTask EXCEPT !.pc = "disk", !.key = thr[t].key]]
    /\ thr' = [thr EXCEPT ![t] = IdleThread]
    /\ Return(t, Result(thr[t].key, Nil, NextTask, thr[t].late))
    /\ UNCHANGED <<source, tiles, mu, disk, calls, firstPub, view, renderers, appVars>>

\* --------------------------------------- ClearCache, SetSource, ToggleSource
\* The mutant: ClearCache goes on without the lock.
ClearCacheNoLock(t) ==
    /\ thr[t].pc = "idle"
    /\ calls < MaxCalls
    /\ calls' = calls + 1
    /\ thr' = [thr EXCEPT ![t] = [IdleThread EXCEPT !.pc = "Clear"]]
    /\ Break
    /\ UNCHANGED <<source, tiles, loading, mu, disk, tasks, firstPub, view, renderers, appVars>>

\* tm.mu.Lock() in ClearCache
ClearCacheLock(t) ==
    /\ thr[t].pc = "idle"
    /\ calls < MaxCalls
    /\ CanLock
    /\ calls' = calls + 1
    /\ mu' = TRUE
    /\ thr' = [thr EXCEPT ![t] = [IdleThread EXCEPT !.pc = "Clear"]]
    /\ Break
    /\ UNCHANGED <<source, tiles, loading, disk, tasks, firstPub, view, renderers, appVars>>

\* The mutant: only the active source's entries are dropped.
ClearedActiveOnly == [k \in Keys |-> IF k.Source = source THEN Nil ELSE tiles[k]]

\* make(map[TileCacheKey]*ebiten.Image)
Cleared == [k \in Keys |-> Nil]

\* The mutant: ClearCache also empties the in-flight set.
ClearCacheDropsMarkers(t) ==
    /\ thr[t].pc = "Clear"
    /\ tiles' = Cleared
    /\ loading' = {}
    /\ mu' = FALSE
    /\ thr' = [t2 \in Threads |->
                 IF t2 = t THEN IdleThread ELSE [thr[t2] EXCEPT !.late = FALSE]]
    /\ firstPub' = [k \in Keys |-> Nil]
    /\ trail' = [NoTrail EXCEPT !.kind = "clear",
                                !.keys = {k \in Keys : tiles[k] # Nil},
                                !.infl = loading]
    /\ UNCHANGED <<source, disk, tasks, calls, view, renderers, appVars>>

\* The mutant: ClearCache cancels the loadTile goroutines in flight.
ClearCacheCancels(t) ==
    /\ thr[t].pc = "Clear"
    /\ tiles' = Cleared
    /\ loading' = {}
    /\ tasks' = [i \in TaskIds |-> IF Outstanding(i) THEN DoneTask ELSE tasks[i]]
    /\ mu' = FALSE
    /\ thr' = [t2 \in Threads |->
                 IF t2 = t THEN IdleThread ELSE [thr[t2] EXCEPT !.late = FALSE]]
    /\ firstPub' = [k \in Keys |-> Nil]
    /\ trail' = [NoTrail EXCEPT !.kind = "clear",
                                !.keys = {k \in Keys : tiles[k] # Nil},
                                !.infl = loading]
    /\ UNCHANGED <<source, disk, calls, view, renderers, appVars>>

\* tm.tiles = make(...), Unlock
ClearCache(t) ==
    /\ thr[t].pc = "Clear"
    /\ tiles' = Cleared
    /\ mu' = FALSE
    /\ thr' = [t2 \in Threads |->
                 IF t2 = t THEN IdleThread ELSE [thr[t2] EXCEPT !.late = FALSE]]
    /\ firstPub' = [k \in Keys |-> Nil]
    /\ trail' = [NoTrail EXCEPT !.kind = "clear",
                                !.keys = {k \in Keys : tiles[k] # Nil},
                                !.infl = loading]
    /\ UNCHANGED <<source, loading, disk, tasks, calls, view, renderers, appVars>>

\* The mutant: switching the source drops the cached tiles.
SwitchInvalidates(t, op, s) ==
    /\ thr[t].pc = "idle"
    /\ calls < MaxCalls
    /\ CanLock
    /\ calls' = calls + 1
    /\ source' = s
    /\ tiles' = [k \in Keys |-> Nil]
    /\ trail' = [NoTrail EXCEPT !.kind = op]
    /\ UNCHANGED <<loading, mu, disk, thr, tasks, firstPub, view, renderers, appVars>>

\* The call of SetSource or ToggleSource, which sets tm.source to s.
Switch(t, op, s) ==
    /\ thr[t].pc = "idle"
    /\ calls < MaxCalls
    /\ CanLock
    /\ calls' = calls + 1
    /\ source' = s
    /\ trail' = [NoTrail EXCEPT !.kind = op]
    /\ UNCHANGED <<tiles, loading, mu, disk, thr, tasks, firstPub, view, renderers, appVars>>

\* Lock, tm.source = source, Unlock
SetSource(t, s) == Switch(t, "SetSource", s)

Toggled(s) == IF s = MapSourceStreet THEN MapSourceSatellite ELSE MapSourceStreet

\* Lock, flip tm.source, Unlock
ToggleSource(t) == Switch(t, "ToggleSource", Toggled(source))

\* ----------------------------------------------------------------- loadTile
\* The mutant: the active source is read again instead of the argument.
FetchSourceActive(i) == source

\* The `source` argument of loadTile, which it hands to loadFromCache and
\* downloadTile, and they to cachePath and to the choice of the URL.
FetchSource(i) == tasks[i].key.Source

\* tm.cachePath(coord, source): the cache file the goroutine reads and writes.
cachePath(i) == [Coord |-> tasks[i].key.Coord, Source |-> FetchSource(i)]

\* A decoded image is identified by the loadTile goroutine that created it,
\* by where its bytes came from ("disk" or "net"), and by the source whose
\* cache file or URL they were read from.
Image(i, from) == [id |-> i, from |-> from, src |-> FetchSource(i)]

\* The mutant: the network is tried whatever the disk gave.
AfterDiskAlwaysHttp(res) == "http"

\* loadTile after loadFromCache: publish a decoded image, else download.
AfterDisk(res) == IF res = "good" THEN "pub" ELSE "http"

\* tm.loadFromCache(coord, source): os.Open and image.Decode, no lock held.
loadFromCache(i) ==
    /\ tasks[i].pc = "disk"
    /\ LET res == disk[cachePath(i)] IN
         tasks' = [tasks EXCEPT ![i].pc = AfterDisk(res),
                                ![i].diskres = IF res = "good" THEN "ok" ELSE "fail",
                                ![i].img = IF res = "good" THEN Image(i, "disk") ELSE Nil]
    /\ Break
    /\ UNCHANGED <<source, tiles, loading, mu, disk, thr, calls, firstPub, view, renderers, appVars>>

\* downloadTile ends before anything is written: transport error (the 10 s
\* timeout included), status other than 200, or body read error.
downloadFails(i) ==
    /\ tasks[i].pc = "http"
    /\ \E why \in {"transport", "status", "read"} :
         tasks' = [tasks EXCEPT ![i].pc = "fin", ![i].http = TRUE]
    /\ Break
    /\ UNCHANGED <<source, tiles, loading, mu, disk, thr, calls, firstPub, view, renderers, appVars>>

\* The mutant: loadTile publishes whatever downloadTile returned.
AfterDownloadAlwaysPublish(body) == "pub"

\* loadTile after downloadTile: publish if img != nil, else only the
\* deferred function runs.
AfterDownload(body) == IF body = "good" THEN "pub" ELSE "fin"

\* The mutant: downloadTile returns nil when the cache file was not written.
DecodedIfSaved(body, written) == IF written THEN body ELSE "bad"

\* What image.Decode makes of the bytes read, whether or not MkdirAll and
\* WriteFile succeeded before it (a write error is only logged).
Decoded(body, written) == body

\* downloadTile with status 200 and a body: os.WriteFile of the raw bytes
\* (which may fail), then image.Decode of the same bytes.
downloadBody(i) ==
    /\ tasks[i].pc = "http"
    /\ \E body \in {"good", "bad"}, written \in BOOLEAN :
         /\ disk' = IF written THEN [disk EXCEPT ![cachePath(i)] = body] ELSE disk
         /\ tasks' = [tasks EXCEPT ![i].pc = AfterDownload(Decoded(body, written)),
                                   ![i].http = TRUE,
                                   ![i].body = body,
                                   ![i].saved = IF written THEN "ok" ELSE "fail",
                                   ![i].img = IF Decoded(body, written) = "good"
                                              THEN Image(i, "net") ELSE Nil]
    /\ Break
    /\ UNCHANGED <<source, tiles, loading, mu, thr, calls, firstPub, view, renderers, appVars>>

\* tm.mu.Lock() before tm.tiles[key] = img
publishLock(i) ==
    /\ tasks[i].pc = "pub"
    /\ CanLock
    /\ mu' = TRUE
    /\ tasks' = [tasks EXCEPT ![i].pc = "pub_cs"]
    /\ Break
    /\ UNCHANGED <<source, tiles, loading, disk, thr, calls, firstPub, view, renderers, appVars>>

\* tm.tiles[key] = img, Unlock, return into the deferred function
publish(i) ==
    /\ tasks[i].pc = "pub_cs"
    /\ tiles' = [tiles EXCEPT ![tasks[i].key] = tasks[i].img]
    /\ mu' = FALSE
    /\ tasks' = [tasks EXCEPT ![i].pc = "fin"]
    /\ firstPub' = IF firstPub[tasks[i].key] = Nil
                   THEN [firstPub EXCEPT ![tasks[i].key] = tasks[i].img] ELSE firstPub
    /\ Break
    /\ UNCHANGED <<source, loading, disk, thr, calls, view, renderers, appVars>>

\* The mutant: the marker is removed only on the success paths.
UnmarkedOnSuccess(i) ==
    IF tasks[i].img # Nil THEN loading \ {tasks[i].key} ELSE loading

\* The mutant: the deferred function leaves the marker in place.
UnmarkedNever(i) == loading

\* delete(tm.loading, key)
Unmarked(i) == loading \ {tasks[i].key}

\* The mutant: the deferred function deletes without taking the lock.
deferUnmarkNoLock(i) ==
    /\ tasks[i].pc = "fin"
    /\ loading' = Unmarked(i)
    /\ tasks' = [tasks EXCEPT ![i] = DoneTask]
    /\ trail' = IF tasks[i].img = Nil
                THEN [NoTrail EXCEPT !.kind = "fail", !.keys = {tasks[i].key}]
                ELSE NoTrail
    /\ UNCHANGED <<source, tiles, mu, disk, thr, calls, firstPub, view, renderers, appVars>>

\* the deferred function: Lock, delete, Unlock; the goroutine ends
deferUnmark(i) ==
    /\ tasks[i].pc = "fin"
    /\ CanLock
    /\ loading' = Unmarked(i)
    /\ tasks' = [tasks EXCEPT ![i] = DoneTask]
    /\ trail' = IF tasks[i].img = Nil
                THEN [NoTrail EXCEPT !.kind = "fail", !.keys = {tasks[i].key}]
                ELSE NoTrail
    /\ UNCHANGED <<source, tiles, mu, disk, thr, calls, firstPub, view, renderers, appVars>>

\* ------------------------------------------------------------ specification
Next ==
    \/ \E t \in Threads, c \in Coords : GetSource(t, c)
    \/ \E t \in Threads : GetTileCheck(t)
    \/ \E t \in Threads : GetTileMark(t)
    \/ \E t \in Threads : ClearCacheLock(t)
    \/ \E t \in Threads : ClearCache(t)
    \/ \E t \in Threads, s \in Sources : SetSource(t, s)
    \/ \E t \in Threads : ToggleSource(t)
    \/ \E i \in TaskIds : loadFromCache(i)
    \/ \E i \in TaskIds : downloadFails(i)
    \/ \E i \in TaskIds : downloadBody(i)
    \/ \E i \in TaskIds : publishLock(i)
    \/ \E i \in TaskIds : publish(i)
    \/ \E i \in TaskIds : deferUnmark(i)

Spec == Init /\ [][Next]_vars

SpecRender == InitRender /\ [][Next]_vars

\* ---------------------------------------------------------- GetTilesForView
\* Go's integer division and remainder truncate toward zero.
GoDiv(a, b) == IF a >= 0 THEN a \div b ELSE -((-a) \div b)
GoMod(a, b) == a - b * GoDiv(a, b)

\* The mutant: the remainder alone, which is negative for a negative x.
WrapXRemainder(x, n) == GoMod(x, n)

\* x = ((x % n) + n) % n
WrapX(x, n) == GoMod(GoMod(x, n) + n, n)

\* The mutant: rows outside the plane are wrapped like the columns.
KeepYWrapped(y, n) == TRUE

\* if y < 0 || y >= n { continue }
KeepY(y, n) == ~(y < 0 \/ y >= n)

\* The mutant: the two spare tiles left out.
TilesAcrossNoSpare(screen) == GoDiv(screen, TileSize)

\* tilesX := (screenW / TileSize) + 2
TilesAcross(screen) == GoDiv(screen, TileSize) + 2

\* for d := -count / 2; d <= count/2; d++
LoopRange(count) == GoDiv(-count, 2)..GoDiv(count, 2)

\* The two loops, dx outermost, from the center tile (centerX, centerY) that
\* LatLonToTile returned for the view center.
GetTilesForView(centerX, centerY, zoom, screenW, screenH) ==
    LET tilesX == TilesAcross(screenW)
        tilesY == TilesAcross(screenH)
        n == 2 ^ zoom
        loX == GoDiv(-tilesX, 2)
        loY == GoDiv(-tilesY, 2)
        cols == IF GoDiv(tilesX, 2) >= loX THEN GoDiv(tilesX, 2) - loX + 1 ELSE 0
        rows == IF GoDiv(tilesY, 2) >= loY THEN GoDiv(tilesY, 2) - loY + 1 ELSE 0
        block == [i \in 1..(cols * rows) |->
                    [X |-> WrapX(centerX + loX + ((i - 1) \div rows), n),
                     Y |-> centerY + loY + ((i - 1) % rows),
                     Z |-> zoom]]
        keep(c) == KeepY(c.Y, n)
    IN  SelectSeq(block, keep)

Zooms == MinZoom..MaxZoom
NearEdges(n) == (-MaxOff..MaxOff) \cup ((n - MaxOff)..(n + MaxOff))
ViewSizes == {k * TileSize + r : k \in 0..MaxView, r \in {0, TileSize - 1}}

\* The arguments of one call: any zoom level, a center tile near an edge of
\* the plane or outside it (the view center is panned without clamping), and
\* a viewport size.
InitView ==
    /\ NewTileManager
    /\ disk = [k \in Keys |-> "none"]
    /\ renderers = {}
    /\ NewApp
    /\ \E z \in Zooms :
         view \in [zoom : {z}, cx : NearEdges(2 ^ z), cy : NearEdges(2 ^ z),
                   w : ViewSizes, h : ViewSizes, done : {FALSE}, coords : {<<>>}]

ViewCall ==
    /\ ~view.done
    /\ view.zoom # 0
    /\ view' = [view EXCEPT !.done = TRUE,
                            !.coords = GetTilesForView(view.cx, view.cy, view.zoom,
                                                       view.w, view.h)]
    /\ UNCHANGED <<source, tiles, loading, mu, disk, thr, tasks, calls, firstPub, trail, renderers, appVars>>

NextView == ViewCall

SpecView == InitView /\ [][NextView]_vars

\* Fair scheduling: every loadTile goroutine that can take a step eventually
\* takes one (disk reads and HTTP requests end, the client timeout being
\* 10 s), and a caller inside ClearCache or GetTile goes on.
TaskStep(i) ==
    \/ loadFromCache(i)
    \/ downloadFails(i)
    \/ downloadBody(i)
    \/ publishLock(i)
    \/ publish(i)
    \/ deferUnmark(i)

ThreadStep(t) ==
    \/ GetTileCheck(t)
    \/ GetTileMark(t)
    \/ ClearCache(t)

\* The cache directory holds the same for both sources: no file, a file that
\* decodes, or one that does not.
InitFair ==
    /\ Init
    /\ \E d \in {"none", "good", "bad"} : disk = [k \in Keys |-> d]

FairSpec ==
    /\ InitFair /\ [][Next]_vars
    /\ \A i \in TaskIds : WF_vars(TaskStep(i))
    /\ \A t \in Threads : WF_vars(ThreadStep(t))

\* The render loop: drawMapWithOffset calls GetTile for the tiles of the view
\* on every frame, for as long as the program runs. The call is that of
\* GetSource; the frames are not counted, the loadTile goroutines started are.
Frame(t, c) ==
    /\ thr[t].pc = "idle"
    /\ t \in renderers
    /\ CanRLock
    /\ LET k == [Coord |-> c, Source |-> source] IN
         thr' = [thr EXCEPT ![t] = [pc |-> "Check", key |-> k,
                                    late |-> firstPub[k] # Nil]]
    /\ trail' = IF trail.kind \in {"clear", "fail"} /\ trail.who = "none"
                THEN [trail EXCEPT !.who = t] ELSE NoTrail
    /\ UNCHANGED <<source, tiles, loading, mu, disk, tasks, calls, firstPub, view, renderers, appVars>>

\* The render loop is the only caller of GetTile; the cache directory is
\* empty at the start (the downloads fill it with files that decode or not);
\* MaxEvents of the counted calls are left for ClearCache and ToggleSource.
InitFrames ==
    /\ source = MapSourceSatellite
    /\ tiles = [k \in Keys |-> Nil]
    /\ loading = {}
    /\ mu = FALSE
    /\ disk = [k \in Keys |-> "none"]
    /\ thr = [t \in Threads |-> IdleThread]
    /\ tasks = [i \in TaskIds |-> UnusedTask]
    /\ calls = MaxCalls - MaxEvents
    /\ firstPub = [k \in Keys |-> Nil]
    /\ trail = NoTrail
    /\ view = NoView
    /\ renderers = {"t1"}
    /\ NewApp

\* The manager as the application calls it: the render loop draws frames and
\* handles the keyboard (ClearCache on a zoom key, ToggleSource on the map
\* key); the GPIO poll loop calls ToggleSource for the MAP button; nothing
\* calls SetSource.
NextFrames ==
    \/ \E t \in renderers, c \in Coords : Frame(t, c)
    \/ \E t \in renderers : GetTileCheck(t)
    \/ \E t \in renderers : GetTileMark(t)
    \/ \E t \in renderers : ClearCacheLock(t)
    \/ \E t \in renderers : ClearCache(t)
    \/ \E t \in Threads : ToggleSource(t)
    \/ \E i \in TaskIds : loadFromCache(i)
    \/ \E i \in TaskIds : downloadFails(i)
    \/ \E i \in TaskIds : downloadBody(i)
    \/ \E i \in TaskIds : publishLock(i)
    \/ \E i \in TaskIds : publish(i)
    \/ \E i \in TaskIds : deferUnmark(i)

\* Fair scheduling with a render loop that goes on drawing frames.
SpecFrames ==
    /\ InitFrames /\ [][NextFrames]_vars
    /\ \A i \in TaskIds : WF_vars(TaskStep(i))
    /\ \A t \in Threads : WF_vars(ThreadStep(t))
    /\ \A t \in Threads : WF_vars(\E c \in Coords : Frame(t, c))

\* ---------------------------------------------------------------- app.zoom
\* The zoom inputs of each goroutine: the keyboard, the mouse wheel and the
\* touch buttons are handled by Update on the UI goroutine (t1), the GPIO
\* buttons by the poll goroutine (t2).
Vias(t) == IF t = "t1" THEN {"key", "wheel", "touch"} ELSE {"gpio"}

\* Whether the handler calls tileManager.ClearCache after changing the zoom:
\* handleKeyboard does; handleMouse and the touch and GPIO callbacks do not.
ClearsCache(via) == via = "key"

\* if a.zoom < MaxZoom (zoom in, dir = 1), if a.zoom > MinZoom (zoom out,
\* dir = -1): the test passed, the change is still to come. app.zoom is
\* read and written without synchronisation by both goroutines.
ZoomTest(t, via, dir) ==
    /\ handler[t].pc = "idle"
    /\ thr[t].pc = "idle"
    /\ via \in Vias(t)
    /\ IF dir = 1 THEN appZoom < MaxZoom ELSE appZoom > MinZoom
    /\ handler' = [handler EXCEPT ![t] = [pc |-> "apply", via |-> via, dir |-> dir]]
    /\ UNCHANGED <<appZoom, grpc, app, gpio>>
    /\ UNCHANGED tmVars

\* a.zoom++ or a.zoom--
ZoomApply(t) ==
    /\ handler[t].pc = "apply"
    /\ appZoom' = appZoom + handler[t].dir
    /\ handler' = [handler EXCEPT ![t] =
                     IF ClearsCache(handler[t].via)
                     THEN [handler[t] EXCEPT !.pc = "clear"]
                     ELSE NoHandler]
    /\ UNCHANGED <<grpc, app, gpio>>
    /\ UNCHANGED tmVars

\* a.tileManager.ClearCache() of handleKeyboard: tm.mu.Lock()
ZoomClearCache(t) ==
    /\ handler[t].pc = "clear"
    /\ CanLock
    /\ mu' = TRUE
    /\ thr' = [thr EXCEPT ![t] = [IdleThread EXCEPT !.pc = "Clear"]]
    /\ handler' = [handler EXCEPT ![t] = NoHandler]
    /\ Break
    /\ UNCHANGED <<source, tiles, loading, disk, tasks, calls, firstPub, view, renderers>>
    /\ UNCHANGED <<appZoom, grpc, app, gpio>>

\* Draw, which follows Update on the UI goroutine: GetTile for a tile of the
\* view.
Draw(t, c) ==
    /\ handler[t].pc = "idle"
    /\ GetSource(t, c)

\* The application with a warm disk cache: every tile's cache file decodes.
InitZoom ==
    /\ source = MapSourceSatellite
    /\ tiles = [k \in Keys |-> Nil]
    /\ loading = {}
    /\ mu = FALSE
    /\ disk = [k \in Keys |-> "good"]
    /\ thr = [t \in Threads |-> IdleThread]
    /\ tasks = [i \in TaskIds |-> UnusedTask]
    /\ calls = MaxCalls - MaxEvents
    /\ firstPub = [k \in Keys |-> Nil]
    /\ trail = NoTrail
    /\ view = NoView
    /\ renderers = {"t1"}
    /\ NewApp

NextZoom ==
    \/ \E t \in Threads, via \in {"key", "wheel", "touch", "gpio"}, dir \in {1, -1} :
          ZoomTest(t, via, dir)
    \/ \E t \in Threads : ZoomApply(t)
    \/ \E t \in Threads : ZoomClearCache(t)
    \/ \E t \in Threads : ClearCache(t)
    \/ \E t \in Threads, c \in Coords : Draw(t, c)
    \/ \E t \in Threads : GetTileCheck(t)
    \/ \E t \in Threads : GetTileMark(t)
    \/ \E i \in TaskIds : loadFromCache(i)
    \/ \E i \in TaskIds : publishLock(i)
    \/ \E i \in TaskIds : publish(i)
    \/ \E i \in TaskIds : deferUnmark(i)

SpecZoom == InitZoom /\ [][NextZoom]_vars

\* --------------------------------------------------------------- GRPCClient
\* The tile manager as constructed, with no caller, for the specifications
\* of the other parts of the application.
TileManagerUnused ==
    /\ NewTileManager
    /\ disk = [k \in Keys |-> "none"]
    /\ view = NoView
    /\ renderers = {}

\* Connect: Lock; already connected, or the dial succeeds (c.conn, c.client
\* and state.Connected set); Unlock. A failed dial changes nothing.
Connect(t) ==
    /\ grpc.caller[t].pc = "idle"
    /\ grpc.mu = "free"
    /\ ~grpc.conn
    /\ grpc' = [grpc EXCEPT !.conn = TRUE, !.Connected = TRUE]
    /\ UNCHANGED <<appZoom, handler, app, gpio>>
    /\ UNCHANGED tmVars

NextGor == CHOOSE g \in GorIds : grpc.gor[g].pc = "unused" /\
               \A h \in GorIds : h < g => grpc.gor[h].pc # "unused"

\* StartTelemetryStream: Lock; return if c.streaming; c.streaming = true,
\* c.ctx, c.cancel = context.WithCancel(...); Unlock; go c.streamTelemetry()
StartTelemetryStream(t) ==
    /\ grpc.caller[t].pc = "idle"
    /\ grpc.mu = "free"
    /\ ~grpc.streaming
    /\ \E g \in GorIds : grpc.gor[g].pc = "unused"
    /\ grpc' = [grpc EXCEPT !.streaming = TRUE,
                            !.ctx = grpc.ctx + 1,
                            !.gor[NextGor] = [pc |-> "top", ctx |-> 0]]
    /\ UNCHANGED <<appZoom, handler, app, gpio>>
    /\ UNCHANGED tmVars

\* App.Shutdown: a.gpioController.Stop(), then on to StopTelemetryStream
Shutdown(t) ==
    /\ grpc.caller[t].pc = "idle"
    /\ grpc' = [grpc EXCEPT !.caller[t] = [pc |-> "sd_stream", sd |-> TRUE]]
    /\ UNCHANGED <<appZoom, handler, app, gpio>>
    /\ UNCHANGED tmVars

\* Where a caller is once its StopTelemetryStream has returned: back in the
\* code that called it directly, at StopLink inside Shutdown, or through
\* the rest of Disconnect (which is all under its deferred Unlock).
AfterStop(c) ==
    IF c.pc = "sd_stream" THEN [c EXCEPT !.pc = "sd_link"]
    ELSE IF c.pc = "disc_locked" THEN [pc |-> IF c.sd THEN "sd_done" ELSE "idle",
                                      sd |-> FALSE]
    ELSE c

\* StopTelemetryStream: Lock; c.cancel() if not nil; c.streaming = false;
\* Unlock. Called directly, by Shutdown, and by Disconnect, whose remaining
\* statements (conn.Close, c.conn = nil, c.client = nil, Connected = false)
\* follow the return. sync.Mutex is not reentrant: Lock waits for c.mu to
\* be free whoever holds it.
StopTelemetryStream(t) ==
    /\ grpc.caller[t].pc \in {"idle", "sd_stream", "disc_locked"}
    /\ grpc.mu = "free"
    /\ LET inDisconnect == grpc.caller[t].pc = "disc_locked" IN
         grpc' = [grpc EXCEPT
                    !.cancelled = IF grpc.ctx # 0 THEN grpc.cancelled \cup {grpc.ctx}
                                  ELSE grpc.cancelled,
                    !.streaming = FALSE,
                    !.conn = IF inDisconnect THEN FALSE ELSE grpc.conn,
                    !.Connected = IF inDisconnect THEN FALSE ELSE grpc.Connected,
                    !.caller[t] = AfterStop(grpc.caller[t])]
    /\ UNCHANGED <<appZoom, handler, app, gpio>>
    /\ UNCHANGED tmVars

\* StopLink inside Shutdown: returns at once without a client, else after
\* the RPC or its 5 s timeout; c.mu is not taken.
StopLink(t) ==
    /\ grpc.caller[t].pc = "sd_link"
    /\ grpc' = [grpc EXCEPT !.caller[t].pc = "sd_disc"]
    /\ UNCHANGED <<appZoom, handler, app, gpio>>
    /\ UNCHANGED tmVars

\* Disconnect: c.mu.Lock(), defer c.mu.Unlock(); next is its call of
\* c.StopTelemetryStream() with c.mu held.
Disconnect(t) ==
    /\ grpc.caller[t].pc \in {"idle", "sd_disc"}
    /\ grpc.mu = "free"
    /\ grpc' = [grpc EXCEPT !.mu = t, !.caller[t].pc = "disc_locked"]
    /\ UNCHANGED <<appZoom, handler, app, gpio>>
    /\ UNCHANGED tmVars

\* streamTelemetry, head of the outer loop: Lock; return if !c.streaming or
\* c.client == nil; ctx := c.ctx; client := c.client; Unlock
streamTelemetryTop(g) ==
    /\ grpc.gor[g].pc \in {"top"}
    /\ grpc.mu = "free"
    /\ grpc' = [grpc EXCEPT !.gor[g] =
                  IF ~grpc.streaming \/ ~grpc.conn
                  THEN [pc |-> "done", ctx |-> 0]
                  ELSE [pc |-> "open", ctx |-> grpc.ctx]]
    /\ UNCHANGED <<appZoom, handler, app, gpio>>
    /\ UNCHANGED tmVars

\* client.GetTelemetryStream(ctx, ...): a stream, or an error (always an
\* error once ctx is cancelled), which is logged before the one-second sleep
streamTelemetryOpen(g) ==
    /\ grpc.gor[g].pc = "open"
    /\ \E ok \in BOOLEAN :
         /\ ok => grpc.gor[g].ctx \notin grpc.cancelled
         /\ grpc' = [grpc EXCEPT !.gor[g].pc = IF ok THEN "recv" ELSE "sleep"]
    /\ UNCHANGED <<appZoom, handler, app, gpio>>
    /\ UNCHANGED tmVars

\* time.Sleep(time.Second); continue
streamTelemetrySleep(g) ==
    /\ grpc.gor[g].pc = "sleep"
    /\ grpc' = [grpc EXCEPT !.gor[g].pc = "top"]
    /\ UNCHANGED <<appZoom, handler, app, gpio>>
    /\ UNCHANGED tmVars

\* stream.Recv() ends the inner loop: io.EOF or an error with the context
\* alive breaks to the outer loop, an error with ctx.Err() != nil returns.
\* (A message received is processed and Recv is called again.)
streamTelemetryRecv(g) ==
    /\ grpc.gor[g].pc = "recv"
    /\ \E res \in {"EOF", "error"} :
         grpc' = [grpc EXCEPT !.gor[g] =
                    IF res = "error" /\ grpc.gor[g].ctx \in grpc.cancelled
                    THEN [pc |-> "done", ctx |-> 0]
                    ELSE [grpc.gor[g] EXCEPT !.pc = "top"]]
    /\ UNCHANGED <<appZoom, handler, app, gpio>>
    /\ UNCHANGED tmVars

InitClient ==
    /\ TileManagerUnused
    /\ NewApp

CallerStep(t) ==
    \/ StopTelemetryStream(t)
    \/ StopLink(t)
    \/ Disconnect(t)

GorStep(g) ==
    \/ streamTelemetryTop(g)
    \/ streamTelemetryOpen(g)
    \/ streamTelemetrySleep(g)
    \/ streamTelemetryRecv(g)

NextClient ==
    \/ \E t \in Threads : Connect(t)
    \/ \E t \in Threads : StartTelemetryStream(t)
    \/ \E t \in Threads : Shutdown(t)
    \/ \E t \in Threads : StopTelemetryStream(t)
    \/ \E t \in Threads : StopLink(t)
    \/ \E t \in Threads : Disconnect(t)
    \/ \E g \in GorIds : streamTelemetryTop(g)
    \/ \E g \in GorIds : streamTelemetryOpen(g)
    \/ \E g \in GorIds : streamTelemetrySleep(g)
    \/ \E g \in GorIds : streamTelemetryRecv(g)

\* Fair scheduling: a caller inside Shutdown or Disconnect goes on whenever
\* it can, and so does every stream goroutine (RPCs and sleeps end).
SpecClient ==
    /\ InitClient /\ [][NextClient]_vars
    /\ \A t \in Threads :
          WF_vars(grpc.caller[t].pc # "idle" /\ CallerStep(t))
    /\ \A g \in GorIds : WF_vars(GorStep(g))

\* --------------------------------------------------------------- App.Update
\* The first n points of a flight: n distinct positions, oldest first.
Flown(n) == [i \in 1..n |-> Pos(100 + i, 100 + i)]

\* The telemetry snapshots GetState may return.
Snapshots == [HasGPS : BOOLEAN, Latitude : {0, 7}, Longitude : {0, 8}]

\* state.HasGPS && state.Latitude != 0 && state.Longitude != 0
Fix(st) == st.HasGPS /\ st.Latitude # 0 /\ st.Longitude # 0

\* The aircraft position of a snapshot.
Aircraft(st) == Pos(st.Latitude, st.Longitude)

\* Update begins (ebiten calls it once per tick, on the UI goroutine).
UpdateBegin ==
    /\ app.pc = "idle"
    /\ app.upd < MaxUpdates
    /\ app' = [app EXCEPT !.pc = "touch", !.upd = app.upd + 1]
    /\ UNCHANGED <<appZoom, handler, grpc, gpio>>
    /\ UNCHANGED tmVars

\* touchControls.Update (if showTouchBtns): a tap on FLLW toggles follow
\* mode, a tap on CLR drops the flight path.
UpdateTouch ==
    /\ app.pc = "touch"
    /\ \E tap \in {"none", "FLLW", "CLR"} :
         app' = [app EXCEPT
                   !.pc = "pan",
                   !.followAircraft = IF tap = "FLLW" THEN ~app.followAircraft
                                      ELSE app.followAircraft,
                   !.flightPath = IF tap = "CLR" THEN <<>> ELSE app.flightPath]
    /\ UNCHANGED <<appZoom, handler, grpc, gpio>>
    /\ UNCHANGED tmVars

\* handleKeyboard, pan keys: each arrow or WASD key held moves the center
\* by panSpeed (one unit here) and sets followAircraft = false. The keys
\* tried: none, or some of up, down and left.
handleKeyboardPan ==
    /\ app.pc = "pan"
    /\ \E keys \in {{}, {"up"}, {"left"}, {"up", "down"}} :
         LET d(k) == IF k \in keys THEN 1 ELSE 0 IN
         app' = [app EXCEPT
                   !.pc = "keyF",
                   !.center = Pos(app.center.lat + d("up") - d("down"),
                                  app.center.lon + d("right") - d("left")),
                   !.followAircraft = IF keys # {} THEN FALSE
                                      ELSE app.followAircraft]
    /\ UNCHANGED <<appZoom, handler, grpc, gpio>>
    /\ UNCHANGED tmVars

\* handleKeyboard, key F: a.followAircraft = !a.followAircraft
handleKeyboardFollow ==
    /\ app.pc = "keyF"
    /\ \E pressed \in BOOLEAN :
         app' = [app EXCEPT
                   !.pc = "keyC",
                   !.followAircraft = IF pressed THEN ~app.followAircraft
                                      ELSE app.followAircraft]
    /\ UNCHANGED <<appZoom, handler, grpc, gpio>>
    /\ UNCHANGED tmVars

\* handleKeyboard, key C: a.flightPath = nil
handleKeyboardClear ==
    /\ app.pc = "keyC"
    /\ \E pressed \in BOOLEAN :
         app' = [app EXCEPT
                   !.pc = "mouse",
                   !.flightPath = IF pressed THEN <<>> ELSE app.flightPath]
    /\ UNCHANGED <<appZoom, handler, grpc, gpio>>
    /\ UNCHANGED tmVars

\* handleMouse, drag: a press of the left button starts a drag from the
\* current center; while dragging with the button down the center is the
\* drag start moved by the cursor's way (one unit here) and
\* followAircraft = false; with the button up the drag ends.
handleMouse ==
    /\ app.pc = "mouse"
    /\ \E justPressed \in BOOLEAN, down \in BOOLEAN, way \in {1} :
         /\ justPressed => down
         /\ LET dragging == justPressed \/ app.dragging
                start == IF justPressed THEN app.center ELSE app.drag
            IN  app' = [app EXCEPT
                   !.pc = "state",
                   !.drag = start,
                   !.dragging = dragging /\ down,
                   !.center = IF dragging /\ down
                              THEN Pos(start.lat + way, start.lon - way)
                              ELSE app.center,
                   !.followAircraft = IF dragging /\ down THEN FALSE
                                      ELSE app.followAircraft]
    /\ UNCHANGED <<appZoom, handler, grpc, gpio>>
    /\ UNCHANGED tmVars

\* state := a.client.GetState(): a copy of the telemetry, taken under its
\* read lock. Without a fix Update returns.
UpdateGetState ==
    /\ app.pc = "state"
    /\ \E st \in Snapshots :
         app' = [app EXCEPT !.snap = st,
                            !.pc = IF Fix(st) THEN "append" ELSE "idle"]
    /\ UNCHANGED <<appZoom, handler, grpc, gpio>>
    /\ UNCHANGED tmVars

\* a.flightPath = append(a.flightPath, {lat, lon})
UpdateAppend ==
    /\ app.pc = "append"
    /\ app' = [app EXCEPT !.flightPath = Append(app.flightPath, Aircraft(app.snap)),
                          !.pc = "len"]
    /\ UNCHANGED <<appZoom, handler, grpc, gpio>>
    /\ UNCHANGED tmVars

\* if len(a.flightPath) > a.maxPathLen
UpdateLen ==
    /\ app.pc = "len"
    /\ app' = IF Len(app.flightPath) > maxPathLen
              THEN [app EXCEPT !.pc = "trim", !.seen = app.flightPath]
              ELSE [app EXCEPT !.pc = "follow"]
    /\ UNCHANGED <<appZoom, handler, grpc, gpio>>
    /\ UNCHANGED tmVars

\* a.flightPath[1:]
Trimmed(path) == Tail(path)

\* a.flightPath = a.flightPath[1:]. The GPIO goroutine writes the field
\* without synchronisation, so the slice expression works on the field as
\* it is now or on the value the length test loaded (seen); slicing a nil
\* path panics (slice bounds out of range).
UpdateTrim ==
    /\ app.pc = "trim"
    /\ \E path \in {app.flightPath, app.seen} :
         app' = IF path = <<>>
                THEN [app EXCEPT !.pc = "panic", !.seen = <<>>]
                ELSE [app EXCEPT !.flightPath = Trimmed(path),
                                 !.pc = "follow", !.seen = <<>>]
    /\ UNCHANGED <<appZoom, handler, grpc, gpio>>
    /\ UNCHANGED tmVars

\* The mutant: the view is recentered whatever the follow mode.
RecenteredAlways(follow, center, st) == Aircraft(st)

\* if a.followAircraft { a.centerLat, a.centerLon = state.Latitude, ... }
Recentered(follow, center, st) == IF follow THEN Aircraft(st) ELSE center

\* the follow test and assignment; Update returns.
UpdateFollow ==
    /\ app.pc = "follow"
    /\ app' = [app EXCEPT
                 !.center = Recentered(app.followAircraft, app.center, app.snap),
                 !.pc = "idle"]
    /\ UNCHANGED <<appZoom, handler, grpc, gpio>>
    /\ UNCHANGED tmVars

\* The GPIO FOLLOW callback, on the poll goroutine:
\* app.followAircraft = !app.followAircraft
GPIOFollow ==
    /\ app.pc # "panic"
    /\ app' = [app EXCEPT !.followAircraft = ~app.followAircraft]
    /\ UNCHANGED <<appZoom, handler, grpc, gpio>>
    /\ UNCHANGED tmVars

\* The GPIO CLEAR callback, on the poll goroutine: app.flightPath = nil
GPIOClear ==
    /\ app.pc # "panic"
    /\ app.flightPath # <<>>
    /\ app' = [app EXCEPT !.flightPath = <<>>]
    /\ UNCHANGED <<appZoom, handler, grpc, gpio>>
    /\ UNCHANGED tmVars

\* The application some way into a flight: no point recorded yet, or a
\* flight path one short of full, or full.
InitUpdate ==
    /\ TileManagerUnused
    /\ appZoom = DefaultZoom
    /\ handler = [t \in Threads |-> NoHandler]
    /\ grpc = NewGRPCClient
    /\ gpio = NewGPIOController
    /\ \E n \in {0, maxPathLen - 1, maxPathLen} :
         app = [NewAppState EXCEPT !.flightPath = Flown(n)]

NextUpdate ==
    \/ UpdateBegin
    \/ UpdateTouch
    \/ handleKeyboardPan
    \/ handleKeyboardFollow
    \/ handleKeyboardClear
    \/ handleMouse
    \/ UpdateGetState
    \/ UpdateAppend
    \/ UpdateLen
    \/ UpdateTrim
    \/ UpdateFollow
    \/ GPIOFollow
    \/ GPIOClear

SpecUpdate == InitUpdate /\ [][NextUpdate]_vars

\* ------------------------------------------------------------ GPIOController
\* Start on a Raspberry Pi: the pin is exported, g.enabled = true,
\* go g.pollLoop().
Start ==
    /\ gpio.loop = "none"
    /\ ~gpio.enabled
    /\ gpio.stop = "idle"
    /\ gpio' = [gpio EXCEPT !.exported = TRUE, !.enabled = TRUE, !.loop = "select"]
    /\ UNCHANGED <<appZoom, handler, grpc, app>>
    /\ UNCHANGED tmVars

\* Time passes: d milliseconds, at least the ticker's period of 10 ms, so
\* the ticker's channel (capacity 1) holds a tick afterwards.
Elapse ==
    /\ gpio.ticks < MaxTicks
    /\ \E d \in {10, 40, 41} :
         gpio' = [gpio EXCEPT !.clock = gpio.clock + d, !.tick = TRUE,
                              !.ticks = gpio.ticks + 1]
    /\ UNCHANGED <<appZoom, handler, grpc, app>>
    /\ UNCHANGED tmVars

\* The button goes down (level 0, active low) or up (level 1), or its
\* contact bounces.
PinChange ==
    /\ gpio' = [gpio EXCEPT !.level = 1 - gpio.level,
                            !.fires = IF gpio.level = 1 THEN 0 ELSE gpio.fires]
    /\ UNCHANGED <<appZoom, handler, grpc, app>>
    /\ UNCHANGED tmVars

\* pollLoop's select: the stop case when the stop channel is closed, the
\* ticker case when a tick is waiting; either when both are ready.
pollLoop ==
    /\ gpio.loop = "select"
    /\ \/ /\ gpio.stopChan = "closed"
          /\ gpio' = [gpio EXCEPT !.loop = "exit"]
       \/ /\ gpio.tick
          /\ gpio' = [gpio EXCEPT !.loop = "poll", !.tick = FALSE]
    /\ UNCHANGED <<appZoom, handler, grpc, app>>
    /\ UNCHANGED tmVars

\* pollButtons: now := time.Now().UnixMilli(); value, err := readPin(pin);
\* the read fails once the pin is unexported, and pollButtons goes on to
\* the next button (here: returns).
pollButtonsRead ==
    /\ gpio.loop = "poll"
    /\ gpio' = IF gpio.exported
               THEN [gpio EXCEPT !.now = gpio.clock, !.value = gpio.level,
                                 !.loop = "read"]
               ELSE [gpio EXCEPT !.now = gpio.clock, !.loop = "select"]
    /\ UNCHANGED <<appZoom, handler, grpc, app>>
    /\ UNCHANGED tmVars

\* pressed != btn.lastState && now-btn.lastChange > btn.debounceMs
Accepted(pressed, now, btn) ==
    pressed # btn.lastState /\ now - btn.lastChange > debounceMs

\* pollButtons, after the read: pressed := value == 0; an accepted change
\* updates lastState and lastChange; an accepted press runs onPress, the
\* FOLLOW callback: app.followAircraft = !app.followAircraft.
pollButtonsDebounce ==
    /\ gpio.loop = "read"
    /\ LET pressed == gpio.value = 0
           accept == Accepted(pressed, gpio.now, gpio.btn)
       IN  /\ gpio' = [gpio EXCEPT
                         !.loop = "select",
                         !.btn = IF accept
                                 THEN [lastState |-> pressed, lastChange |-> gpio.now]
                                 ELSE gpio.btn,
                         !.fires = IF accept /\ pressed THEN gpio.fires + 1
                                   ELSE gpio.fires]
           /\ app' = IF accept /\ pressed
                     THEN [app EXCEPT !.followAircraft = ~app.followAircraft]
                     ELSE app
    /\ UNCHANGED <<appZoom, handler, grpc>>
    /\ UNCHANGED tmVars

\* Stop: if g.enabled { close(g.stopChan); g.enabled = false; ... }
StopClose ==
    /\ gpio.stop = "idle"
    /\ gpio.enabled
    /\ gpio' = [gpio EXCEPT !.stopChan = "closed", !.enabled = FALSE,
                            !.stop = "unexport"]
    /\ UNCHANGED <<appZoom, handler, grpc, app>>
    /\ UNCHANGED tmVars

\* Stop, the rest: the pins are unexported.
StopUnexport ==
    /\ gpio.stop = "unexport"
    /\ gpio' = [gpio EXCEPT !.exported = FALSE, !.stop = "done"]
    /\ UNCHANGED <<appZoom, handler, grpc, app>>
    /\ UNCHANGED tmVars

\* The application before Run starts the controller; the button is up or
\* held down.
InitGPIO ==
    /\ TileManagerUnused
    /\ appZoom = DefaultZoom
    /\ handler = [t \in Threads |-> NoHandler]
    /\ grpc = NewGRPCClient
    /\ app = NewAppState
    /\ \E l \in {0, 1} : gpio = [NewGPIOController EXCEPT !.level = l]

\* The steps of the poll goroutine.
pollStep == pollLoop \/ pollButtonsRead \/ pollButtonsDebounce

\* pollLoop's select takes the stop case.
pollLoopStop == pollLoop /\ gpio'.loop = "exit"

NextGPIO ==
    \/ Start
    \/ Elapse
    \/ PinChange
    \/ pollLoop
    \/ pollButtonsRead
    \/ pollButtonsDebounce
    \/ StopClose
    \/ StopUnexport

\* The poll goroutine keeps running, and a select that is offered the
\* closed stop channel again and again takes it in the end (Go chooses
\* among the ready cases at random).
SpecGPIO ==
    /\ InitGPIO
    /\ [][NextGPIO]_vars
    /\ WF_vars(pollStep)
    /\ SF_vars(pollLoopStop)

\* =================================================================== claims
\* The step just taken was the return of a GetTile of caller t.
Returned(t) == trail.who = t /\ trail.got.valid

\* C1: at no time are two fetch tasks (loadTile goroutines) outstanding for
\* the same key, whatever the interleaving of the callers of GetTile.
C1_OneFetchPerKey ==
    \A i, j \in TaskIds :
        (i # j /\ Outstanding(i) /\ Outstanding(j)) => tasks[i].key # tasks[j].key

\* C2: GetTile builds its key from the active source; its read-locked section
\* returns the resident tile and schedules nothing when the key is resident,
\* returns nil and schedules nothing when the key is absent and in-flight,
\* and otherwise goes on to mark the key in-flight, start exactly one
\* loadTile for it (at its disk read) and return nil.
C2_GetTileOutcome ==
    [][\A t \in Threads :
        LET k == thr[t].key IN
        /\ (thr[t].pc = "idle" /\ thr'[t].pc = "Check")
              => thr'[t].key.Source = source
        /\ (thr[t].pc = "Check" /\ thr'[t].pc # "Check" /\ tiles[k] # Nil)
              => /\ thr'[t].pc = "idle"
                 /\ trail'.who = t
                 /\ trail'.got = Result(k, tiles[k], 0, thr[t].late)
                 /\ tasks' = tasks /\ loading' = loading
        /\ (thr[t].pc = "Check" /\ thr'[t].pc # "Check" /\ tiles[k] = Nil
                /\ k \in loading)
              => /\ thr'[t].pc = "idle"
                 /\ trail'.who = t
                 /\ trail'.got = Result(k, Nil, 0, thr[t].late)
                 /\ tasks' = tasks /\ loading' = loading
        /\ (thr[t].pc = "Check" /\ thr'[t].pc # "Check" /\ tiles[k] = Nil
                /\ k \notin loading)
              => thr'[t].pc = "Mark" /\ tasks' = tasks
        /\ (thr[t].pc = "Mark" /\ thr'[t].pc # "Mark")
              => /\ thr'[t].pc = "idle"
                 /\ trail'.who = t
                 /\ loading' = loading \cup {k}
                 /\ \E i \in TaskIds :
                       /\ trail'.got = Result(k, Nil, i, thr[t].late)
                       /\ tasks[i].pc = "unused"
                       /\ tasks'[i] = [UnusedTask EXCEPT !.pc = "disk", !.key = k]
                       /\ \A j \in TaskIds \ {i} : tasks'[j] = tasks[j]
      ]_vars

\* A GetTile that returned nil without starting a fetch: its key is in-flight.
C2_Witness ==
    \E t \in Threads :
        /\ Returned(t) /\ trail.got.ret = Nil /\ trail.got.spawned = 0
        /\ trail.got.key \in loading

\* C3: a GetTile that starts after a fetch published a tile for its key, with
\* no ClearCache since, returns that tile and starts no fetch.
C3_CacheHit ==
    \A t \in Threads :
        (Returned(t) /\ trail.got.late)
            => trail.got.ret = firstPub[trail.got.key] /\ trail.got.spawned = 0

\* The GetTile of caller t directly followed the recorded operation (no step
\* of another caller or of a loadTile in between) and was for one of its keys.
Followed(t, kind) ==
    /\ Returned(t)
    /\ trail.kind = kind
    /\ trail.got.key \in trail.keys

\* C4 as stated: ClearCache followed immediately by GetTile for a key that
\* was resident returns nil and schedules a new fetch, in every state.
C4_ClearThenGetRefetches ==
    \A t \in Threads :
        Followed(t, "clear") => trail.got.ret = Nil /\ trail.got.spawned # 0

\* C4 as amended: ClearCache followed immediately by GetTile for a key that
\* was resident returns nil, and schedules a new fetch exactly when the key
\* is not marked in-flight; while a loadTile for the key has not yet removed
\* its marker, GetTile returns nil and schedules nothing.
C4_ClearThenGetRefetchesUnlessInFlight ==
    \A t \in Threads :
        Followed(t, "clear")
            => /\ trail.got.ret = Nil
               /\ (trail.got.spawned # 0) <=> (trail.got.key \notin trail.infl)

\* ClearCache then GetTile for a key that was resident started a new fetch.
C4_Witness ==
    \E t \in Threads : Followed(t, "clear") /\ trail.got.spawned # 0

\* C5: only a loadTile that holds a decoded image writes the tile map; a
\* loadTile that failed ends by removing its key from the in-flight set and
\* leaves the tile map as it is; and a GetTile for that key that directly
\* follows, the key being absent, starts a new loadTile at its disk read.
C5_FailedFetch ==
    /\ [](\A i \in TaskIds : tasks[i].pc \in {"pub", "pub_cs"} => tasks[i].img # Nil)
    /\ [](\A t \in Threads :
            (Followed(t, "fail") /\ tiles[trail.got.key] = Nil)
                => /\ trail.got.ret = Nil
                   /\ trail.got.spawned # 0
                   /\ tasks[trail.got.spawned] =
                        [UnusedTask EXCEPT !.pc = "disk", !.key = trail.got.key])
    /\ [][\A i \in TaskIds :
            /\ (tasks[i].img = Nil /\ tasks'[i].img = Nil /\ tasks'[i] # tasks[i])
                  => tiles' = tiles
            /\ (tasks[i].pc = "fin" /\ tasks'[i].pc = "done")
                  => tasks[i].key \notin loading'
         ]_vars

\* A failed fetch, then a GetTile for its key that started the fetch anew.
C5_Witness ==
    \E t \in Threads :
        Followed(t, "fail") /\ tiles[trail.got.key] = Nil /\ trail.got.spawned # 0

\* C6: under fair scheduling every key marked in-flight is eventually
\* unmarked.
C6_MarkerCleared ==
    \A k \in Keys : (k \in loading) ~> (k \notin loading)

\* A loadTile failed and ended: its key is no longer marked.
C6_Witness ==
    trail.kind = "fail" /\ trail.keys # {} /\ trail.keys \cap loading = {}

\* C7: a loadTile whose disk read decoded goes on to publish the image
\* decoded from disk and never issues an HTTP request; an HTTP request is
\* issued only by a loadTile whose own disk read or decode failed.
C7_DiskBeforeNetwork ==
    /\ [](\A i \in TaskIds :
            /\ (tasks[i].pc = "http" \/ tasks[i].http) => tasks[i].diskres = "fail"
            /\ tasks[i].diskres = "ok"
                  => /\ tasks[i].pc \in {"pub", "pub_cs", "fin"}
                     /\ tasks[i].img = Image(i, "disk"))
    /\ [][\A i \in TaskIds :
            /\ (tasks[i].pc = "disk" /\ tasks'[i].pc # "disk"
                    /\ disk[tasks[i].key] = "good")
                  => tasks'[i].pc = "pub" /\ tasks'[i].img = Image(i, "disk")
            /\ (tasks[i].pc = "pub_cs" /\ tasks'[i].pc # "pub_cs")
                  => tiles'[tasks[i].key] = tasks[i].img
         ]_vars

\* A tile decoded from the disk cache is resident.
C7_Witness ==
    \E k \in Keys : tiles[k] # Nil /\ tiles[k].from = "disk"

SwitchOps == {"SetSource", "ToggleSource"}

\* C8: a call of SetSource or ToggleSource leaves the tile map, the in-flight
\* set and the disk cache unchanged, so the entries of both sources stay.
C8_SwitchFrame ==
    [][trail'.kind \in SwitchOps
          => tiles' = tiles /\ loading' = loading /\ disk' = disk
      ]_vars

\* Right after a switch, a tile of the source switched away from is resident.
C8_Witness ==
    /\ trail.kind \in SwitchOps
    /\ \E k \in Keys : k.Source # source /\ tiles[k] # Nil

\* C9: the step of ClearCache that replaces the map leaves no entry of any
\* source and leaves the disk cache and the active source unchanged; and the
\* lock is held by at most one of ClearCache and a loadTile's publish, so a
\* publish comes wholly before or wholly after the clear.
C9_ClearCacheAtomic ==
    /\ [](Cardinality({t \in Threads : thr[t].pc = "Clear"})
            + Cardinality({i \in TaskIds : tasks[i].pc = "pub_cs"})
          = IF mu THEN 1 ELSE 0)
    /\ [][\A t \in Threads :
            (thr[t].pc = "Clear" /\ thr'[t].pc = "idle")
                => /\ \A k \in Keys : tiles'[k] = Nil
                   /\ disk' = disk /\ source' = source
         ]_vars

\* Right after a ClearCache that dropped entries.
C9_Witness ==
    /\ trail.kind = "clear" /\ trail.keys # {}
    /\ \A k \in Keys : tiles[k] = Nil

\* C10: every coordinate returned has 0 <= X < 2^zoom, 0 <= Y < 2^zoom and
\* Z = zoom, and its Y is one of the rows of the block around the center
\* tile, unwrapped.
C10_CoordsInRange ==
    view.done =>
        \A i \in 1..Len(view.coords) :
            LET c == view.coords[i]
                n == 2 ^ view.zoom
                half == GoDiv(TilesAcross(view.h), 2)
            IN  /\ 0 <= c.X /\ c.X < n
                /\ 0 <= c.Y /\ c.Y < n
                /\ c.Z = view.zoom
                /\ view.cy - half <= c.Y /\ c.Y <= view.cy + half

\* A view whose center column is left of the plane and whose block reaches
\* over the top edge: columns wrapped, rows dropped.
C10_Witness ==
    /\ view.done /\ view.cx < 0 /\ view.cy = 0
    /\ Len(view.coords) > 0
    /\ \E i \in 1..Len(view.coords) : view.coords[i].X = 2 ^ view.zoom - 1

\* The coordinates returned by the last GetTilesForView call.
Returned_coords == {view.coords[i] : i \in 1..Len(view.coords)}

\* C11: the sequence returned by GetTilesForView holds no coordinate twice.
C11_NoDuplicates ==
    view.done =>
        \A i, j \in 1..Len(view.coords) :
            i # j => view.coords[i] # view.coords[j]

CeilDiv(a, b) == (a + b - 1) \div b

\* C12: the coordinates returned are those of a block of
\* ceil(screenW/TileSize)+2 columns by ceil(screenH/TileSize)+2 rows around
\* the center tile, less the rows outside the plane.
C12_BlockSize ==
    view.done =>
        LET n == 2 ^ view.zoom
            dxs == LoopRange(TilesAcross(view.w))
            dys == LoopRange(TilesAcross(view.h))
        IN  /\ Cardinality(dxs) = CeilDiv(view.w, TileSize) + 2
            /\ Cardinality(dys) = CeilDiv(view.h, TileSize) + 2
            /\ Returned_coords =
                  {[X |-> WrapX(view.cx + dx, n), Y |-> view.cy + dy, Z |-> view.zoom] :
                      dx \in dxs, dy \in {d \in dys : KeepY(view.cy + d, n)}}

\* Where the view center can lie inside its center tile, in pixels.
PixelOffsets == 0..(TileSize - 1)

\* The tile columns (or rows), counted from the center tile, that a viewport
\* of `screen` pixels shows when its center lies `off` pixels into the center
\* tile: those whose pixels [d*TileSize, (d+1)*TileSize) meet the open
\* interval of screen/2 pixels either side of the center.
Shown(screen, off) ==
    ((2 * off - screen) \div (2 * TileSize))..((2 * off + screen - 1) \div (2 * TileSize))

\* The pairs <<screen, d>>: a viewport of `screen` pixels shows the column
\* (or row) d tiles from the center tile for some position of the center.
ShownOffsets ==
    UNION {{<<screen, d>> : d \in UNION {Shown(screen, o) : o \in PixelOffsets}} :
              screen \in ViewSizes}

\* C13: for a viewport with w, h > 0 the coordinates returned are those of
\* the block of columns and rows looped over (columns wrapped, rows outside
\* the plane dropped), and for every position of the view center inside its
\* center tile that block holds every column within w/2 pixels left and
\* right of the center and every row within h/2 pixels above and below it.
C13_ViewCovered ==
    (view.done /\ view.w > 0 /\ view.h > 0) =>
        LET n == 2 ^ view.zoom
            dxs == LoopRange(TilesAcross(view.w))
            dys == LoopRange(TilesAcross(view.h))
        IN  /\ Returned_coords =
                  {[X |-> WrapX(view.cx + dx, n), Y |-> view.cy + dy, Z |-> view.zoom] :
                      dx \in dxs, dy \in {d \in dys : KeepY(view.cy + d, n)}}
            /\ \A p \in ShownOffsets :
                  /\ p[1] = view.w => p[2] \in dxs
                  /\ p[1] = view.h => p[2] \in dys

\* A viewport of four tiles less a pixel, far from the plane's wrap: the
\* columns shown reach the outermost column of the block on either side,
\* and both are returned.
C13_Witness ==
    /\ view.done /\ view.w = 4 * TileSize - 1 /\ view.h > 0 /\ view.zoom = MaxZoom
    /\ view.cy = 0
    /\ LET half == GoDiv(TilesAcross(view.w), 2)
           n == 2 ^ view.zoom
       IN  /\ -half \in Shown(view.w, 0)
           /\ half \in Shown(view.w, TileSize - 1)
           /\ \E c \in Returned_coords : c.X = WrapX(view.cx - half, n)
           /\ \E c \in Returned_coords : c.X = WrapX(view.cx + half, n)

\* C14: a GetTile builds its key from the source active at its start, the
\* loadTile it starts carries that key to its end, reads and writes only the
\* cache file of that key, holds only images read from that key's source,
\* and writes the tile map only under that key; so every resident tile was
\* read from the cache file or the URL of its key's source.
C14_SourcesNotMixed ==
    /\ [](\A k \in Keys : tiles[k] # Nil => tiles[k].src = k.Source)
    /\ [](\A i \in TaskIds :
            tasks[i].img # Nil => tasks[i].img.src = tasks[i].key.Source)
    /\ [][/\ \A t \in Threads :
              /\ (thr[t].pc = "idle" /\ thr'[t].pc = "Check")
                    => thr'[t].key.Source = source
              /\ (thr[t].pc = "Mark" /\ thr'[t].pc = "idle")
                    => \E i \in TaskIds : /\ tasks[i].pc = "unused"
                                          /\ tasks'[i].pc = "disk"
                                          /\ tasks'[i].key = thr[t].key
          /\ \A i \in TaskIds :
              /\ (Outstanding(i) /\ tasks'[i].pc # "done")
                    => tasks'[i].key = tasks[i].key
              /\ (Outstanding(i) /\ tasks'[i] # tasks[i])
                    => \A k \in Keys \ {tasks[i].key} :
                          tiles'[k] = tiles[k] /\ disk'[k] = disk[k]
         ]_vars

\* A loadTile holds the lock to publish an image downloaded for the source
\* of its GetTile after the active source was switched away from it.
C14_Witness ==
    \E i \in TaskIds :
        /\ tasks[i].pc = "pub_cs"
        /\ tasks[i].key.Source # source
        /\ tasks[i].img.from = "net"
        /\ tasks[i].img.src = tasks[i].key.Source

\* A loadTile goroutine is at a disk read, an HTTP request, a disk write or
\* an image decode.
InIO(i) == tasks[i].pc \in {"disk", "http"}

\* C15: the tile map is written only by the holder of the write lock, and
\* the in-flight set is read and written only in locked sections, which no
\* step enters while the write lock is held; the write lock is held only by
\* a ClearCache or by a publish, never by a goroutine at its I/O, and its
\* holder can always go on to release it; the I/O steps of loadTile take no
\* lock and touch neither map; so a caller of GetTile or ClearCache can go
\* on whenever the lock is free, whatever I/O is under way.
C15_NarrowLockScope ==
    /\ [](mu => \/ \E t \in Threads : thr[t].pc = "Clear" /\ ENABLED ClearCache(t)
                \/ \E i \in TaskIds : tasks[i].pc = "pub_cs" /\ ENABLED publish(i))
    /\ [](~mu => /\ \A t \in Threads : thr[t].pc # "Clear"
                 /\ \A i \in TaskIds : tasks[i].pc # "pub_cs")
    /\ [](~mu => \A t \in Threads :
                    /\ thr[t].pc = "Check" => ENABLED GetTileCheck(t)
                    /\ thr[t].pc = "Mark" => ENABLED GetTileMark(t)
                    /\ (thr[t].pc = "idle" /\ calls < MaxCalls)
                          => ENABLED ClearCacheLock(t))
    /\ [][/\ tiles' # tiles => mu /\ ~mu'
          /\ loading' # loading => ~mu /\ ~mu'
          /\ \A t \in Threads :
                (thr[t].pc = "Check" /\ thr'[t].pc # "Check") => ~mu /\ ~mu'
          /\ \A i \in TaskIds :
                (InIO(i) /\ tasks'[i] # tasks[i])
                    => mu' = mu /\ tiles' = tiles /\ loading' = loading
         ]_vars

\* ClearCache holds the lock and a GetTile waits for it while a loadTile is
\* at its HTTP request.
C15_Witness ==
    /\ mu
    /\ \E t \in Threads : thr[t].pc = "Clear"
    /\ \E t \in Threads : thr[t].pc = "Check"
    /\ \E i \in TaskIds : tasks[i].pc = "http"

\* The download of loadTile i got status 200 and a decodable body, and
\* creating the directory or writing the cache file failed.
WriteFailed(i) == tasks[i].body = "good" /\ tasks[i].saved = "fail"

\* C16: a loadTile whose download got a decodable body and whose cache file
\* write failed holds the decoded image and is on its way to publish it;
\* the failed write left the disk cache as it was; the image is written to
\* the tile map under the goroutine's key; such a goroutine leaves that
\* condition only by ending, which removes the key from the in-flight set;
\* and under fair scheduling, whenever there are such goroutines, there
\* comes a state where all of them have ended (finitely many are started).
C16_WriteFailureNotFatal ==
    /\ [](\A i \in TaskIds :
            WriteFailed(i) => /\ tasks[i].img = Image(i, "net")
                              /\ tasks[i].pc \in {"pub", "pub_cs", "fin"})
    /\ [][\A i \in TaskIds :
            /\ (tasks[i].pc = "http" /\ tasks'[i].saved = "fail") => disk' = disk
            /\ (tasks[i].pc = "fin" /\ tasks'[i].pc = "done")
                  => tasks[i].key \notin loading'
            /\ (WriteFailed(i) /\ tasks[i].pc # "fin" /\ tasks'[i].pc = "fin")
                  => tiles'[tasks[i].key] = tasks[i].img
            /\ (WriteFailed(i) /\ ~WriteFailed(i)') => tasks'[i].pc = "done"
         ]_vars
    /\ (\E i \in TaskIds : WriteFailed(i)) ~> (\A i \in TaskIds : ~WriteFailed(i))

\* The image of a download whose cache file write failed is resident, its
\* goroutine is about to end, and the disk cache holds no file for the key.
C16_Witness ==
    \E i \in TaskIds :
        /\ WriteFailed(i) /\ tasks[i].pc = "fin"
        /\ tiles[tasks[i].key] = tasks[i].img
        /\ disk[tasks[i].key] = "none"

\* The step is the map replacement of a ClearCache.
IsClear == \E t \in Threads : thr[t].pc = "Clear" /\ thr'[t].pc = "idle"

\* C17: an entry of the tile map stays, with the same image, over every step
\* that is not the map replacement of a ClearCache.
C17_EntryLifetime ==
    [][\A k \in Keys :
          (tiles[k] # Nil /\ ~IsClear) => tiles'[k] = tiles[k]
      ]_vars

\* The render loop's GetTile for key k has just returned nil.
GotNil(k) ==
    \E t \in renderers : Returned(t) /\ trail.got.key = k /\ trail.got.ret = Nil
\* The render loop's GetTile for key k has just returned a tile.
GotTile(k) ==
    \E t \in renderers : Returned(t) /\ trail.got.key = k /\ trail.got.ret # Nil
\* No goroutine is left to start: the render loop is held at its mark.
OutOfTasks ==
    /\ \A i \in TaskIds : tasks[i].pc # "unused"
    /\ \E t \in renderers : thr[t].pc = "Mark"

\* C18: under fair scheduling, with the render loop calling GetTile on every
\* frame, a GetTile that returned nil for a key of the active source (the
\* key the next frames ask for) is followed by a GetTile that returns the
\* key's tile, unless a fetch for the key fails (the tile cannot be
\* obtained), ClearCache runs or the source is switched (or the goroutines
\* of the model run out).
C18_EventuallyAvailable ==
    \A k \in Keys :
        (GotNil(k) /\ k.Source = source)
                  ~> \/ GotTile(k)
                     \/ trail.kind = "fail" /\ k \in trail.keys
                     \/ trail.kind = "clear"
                     \/ trail.kind \in SwitchOps
                     \/ OutOfTasks

\* The render loop is handed a tile that was downloaded.
C18_Witness ==
    \E k \in Keys : GotTile(k) /\ trail.got.ret.from = "net"

\* C20: with GetTile called from the render loop only, every outstanding
\* loadTile has its key marked in-flight, and no two outstanding loadTile
\* goroutines have the same key or the same cache file, whatever ClearCache,
\* SetSource and ToggleSource calls of either goroutine come in between.
C20_RenderLoopDedup ==
    /\ \A i \in TaskIds : Outstanding(i) => tasks[i].key \in loading
    /\ \A i, j \in TaskIds :
          (i # j /\ Outstanding(i) /\ Outstanding(j))
              => tasks[i].key # tasks[j].key /\ cachePath(i) # cachePath(j)

\* Right after a ClearCache the render loop asks for a key whose loadTile is
\* still outstanding: it is handed nil and no second goroutine is started.
C20_Witness ==
    /\ renderers = {"t1"}
    /\ Followed("t1", "clear")
    /\ trail.got.spawned = 0
    /\ \E i \in TaskIds : Outstanding(i) /\ tasks[i].key = trail.got.key

\* The loadTile goroutine i holds a decoded image and has not ended.
Held(i) == Outstanding(i) /\ tasks[i].img # Nil
\* Key k is neither resident nor marked in-flight.
Absent(k) == tiles[k] = Nil /\ k \notin loading
\* The step is the deferred function of a loadTile goroutine that decoded
\* an image: its key can only be absent by then if a ClearCache came in
\* between.
UnmarkAfterSuccess ==
    \E j \in TaskIds : tasks[j].pc = "fin" /\ tasks[j].img # Nil /\ tasks'[j].pc = "done"

\* C21: a loadTile goroutine ends with the step that removes its marker, a
\* step that leaves the tile map alone; its publish comes before and leaves
\* the marker set; and while a goroutine that decoded an image is
\* outstanding its key does not become absent and unmarked at once unless
\* by a ClearCache (the map replacement itself, or the end of a goroutine
\* whose published tile a ClearCache removed).
C21_MarkerClearedLast ==
    [][\A i \in TaskIds :
          /\ (tasks[i].pc # "done" /\ tasks'[i].pc = "done")
                => /\ tasks[i].pc = "fin"
                   /\ loading' = loading \ {tasks[i].key}
                   /\ tiles' = tiles
          /\ (tasks[i].pc = "pub_cs" /\ tasks'[i].pc = "fin")
                => /\ tiles'[tasks[i].key] = tasks[i].img
                   /\ tasks[i].key \in loading'
          /\ (Held(i) /\ tasks'[i] = tasks[i]
                /\ ~Absent(tasks[i].key) /\ Absent(tasks[i].key)')
                => (IsClear \/ UnmarkAfterSuccess)
      ]_vars

\* C22: the map replacement of ClearCache leaves the in-flight set and the
\* loadTile goroutines as they are; a loadTile keeps its key, writes its
\* image under that key into whatever map is there, and removes the key's
\* marker in its last step; the read-locked section of a GetTile that finds the key
\* absent and marked in-flight returns nil and starts nothing; and under
\* fair scheduling every outstanding loadTile ends, its marker removed.
C22_ClearCacheKeepsFetches ==
    /\ [][/\ IsClear => (loading' = loading /\ tasks' = tasks)
          /\ \A i \in TaskIds :
                /\ (Outstanding(i) /\ Outstanding(i)')
                      => tasks'[i].key = tasks[i].key
                /\ (tasks[i].pc = "pub_cs" /\ tasks'[i].pc = "fin")
                      => tiles'[tasks[i].key] = tasks[i].img
                /\ (tasks[i].pc # "done" /\ tasks'[i].pc = "done")
                      => (tasks[i].pc = "fin" /\ tasks[i].key \notin loading')
          /\ \A t \in Threads :
                (/\ thr[t].pc = "Check" /\ thr'[t].pc # "Check"
                 /\ tiles[thr[t].key] = Nil /\ thr[t].key \in loading)
                   => /\ thr'[t].pc = "idle"
                      /\ trail'.got = Result(thr[t].key, Nil, 0, thr[t].late)
                      /\ tasks' = tasks /\ loading' = loading
         ]_vars
    /\ \A i \in TaskIds :
          Outstanding(i) ~> (tasks[i].pc = "done")

\* A ClearCache has just emptied the map while a loadTile was in flight, and
\* that loadTile now holds its image and is about to publish it.
C22_Witness ==
    /\ trail.kind = "clear"
    /\ \E i \in TaskIds :
          /\ tasks[i].pc = "pub"
          /\ tasks[i].key \in trail.infl
          /\ tiles[tasks[i].key] = Nil

\* C23: a loadTile whose cache file does not decode goes on to the network
\* holding no image; a download whose body does not decode ends the fetch
\* with no image and nothing written to the tile map, and the malformed
\* bytes are not the key's cache file afterwards (a file that does not
\* decode is there only if it was there before and was left alone).
C23_DecodeErrorsDiscarded ==
    [][\A i \in TaskIds :
          /\ (tasks[i].pc = "disk" /\ tasks'[i].pc # "disk"
                /\ disk[cachePath(i)] = "bad")
                => /\ tasks'[i].pc = "http"
                   /\ tasks'[i].img = Nil
                   /\ disk' = disk /\ tiles' = tiles
          /\ (tasks[i].pc = "http" /\ tasks'[i].body = "bad")
                => /\ tasks'[i].pc = "fin"
                   /\ tasks'[i].img = Nil
                   /\ tiles' = tiles
                   /\ disk'[cachePath(i)] = "bad"
                         => (disk' = disk /\ tasks'[i].saved # "ok")
      ]_vars

\* C24: a change of app.zoom is either made with no tile resident or made by
\* a handler that goes on to ClearCache, and that handler's next step takes
\* the manager's lock and the one after empties the tile map; so once the
\* handler has returned no tile resident before the change is left.
C24_ZoomChangeClears ==
    [][/\ appZoom' # appZoom
            => \/ \A k \in Keys : tiles[k] = Nil
               \/ \E t \in Threads : handler'[t].pc = "clear"
       /\ \A t \in Threads :
            (handler[t].pc = "clear" /\ handler'[t].pc # "clear")
               => (mu' /\ thr'[t].pc = "Clear")
      ]_vars

\* C25: app.zoom is within [MinZoom, MaxZoom] in every reachable state.
C25_ZoomInRange == appZoom \in MinZoom..MaxZoom

\* C26: under fair scheduling a Shutdown that has begun runs to its end,
\* the connection closed and Connected false.
C26_ShutdownTerminates ==
    \A t \in Threads :
        (grpc.caller[t].pc = "sd_stream")
            ~> (grpc.caller[t].pc = "sd_done" /\ ~grpc.conn /\ ~grpc.Connected)

\* A stream goroutine is streaming: it is opening a stream or receiving on
\* one, with a context that has not been cancelled.
Streams(g) ==
    /\ grpc.gor[g].pc \in {"open", "recv"}
    /\ grpc.gor[g].ctx \notin grpc.cancelled

\* C27: no two stream goroutines are streaming at the same time.
C27_OneStreamGoroutine ==
    \A g, h \in GorIds : (Streams(g) /\ Streams(h)) => g = h

\* The snapshot the current Update took has a GPS fix with non-zero
\* latitude and longitude.
HasFix == app.snap.HasGPS /\ app.snap.Latitude # 0 /\ app.snap.Longitude # 0

\* C28: Update reaches its follow test only with a fix, and ends it with
\* the view center at the aircraft position of its snapshot if
\* followAircraft is true, and with the center as it was if not; without a
\* fix it leaves the center alone; the center changes in no other step than
\* a pan, a drag or the follow assignment; a pan or drag that moves the
\* center leaves followAircraft false; and followAircraft goes from false
\* to true only by a toggle (touch FLLW, key F, GPIO FOLLOW).
C28_FollowMode ==
    /\ [](app.pc = "follow" => HasFix)
    /\ [][/\ (app.pc = "follow" /\ app'.pc = "idle")
               => app'.center = IF app.followAircraft
                                THEN Pos(app.snap.Latitude, app.snap.Longitude)
                                ELSE app.center
          /\ (app.pc = "state" /\ app'.pc = "idle")
               => (~HasFix' /\ app'.center = app.center)
          /\ app'.center # app.center => app.pc \in {"pan", "mouse", "follow"}
          /\ (app.pc \in {"pan", "mouse"} /\ app'.center # app.center)
               => ~app'.followAircraft
          /\ (~app.followAircraft /\ app'.followAircraft)
               => (app.pc \in {"touch", "keyF"} \/ app'.pc = app.pc)
         ]_vars

\* After a pan or drag, an Update with a fix has ended and left the view
\* center where the pan put it.
C28_Witness ==
    /\ app.pc = "idle"
    /\ HasFix
    /\ ~app.followAircraft
    /\ app.center # Pos(app.snap.Latitude, app.snap.Longitude)
    /\ app.center # DefaultCenter

\* C29: between Updates the flight path holds at most maxPathLen points
\* (one more inside an Update); it grows only by Update appending the
\* position of a snapshot with a fix; an Update that finds it longer than
\* maxPathLen goes on to drop, and the drop removes the oldest point of the
\* path it found, the others keeping their order; the path loses points in
\* no other way than that drop or a clear.
C29_FlightPathBounded ==
    /\ [](app.pc = "idle" => Len(app.flightPath) <= maxPathLen)
    /\ [](Len(app.flightPath) <= maxPathLen + 1)
    /\ [][/\ (Len(app'.flightPath) > Len(app.flightPath) /\ app.pc # "trim")
               => /\ app.pc = "append" /\ HasFix
                  /\ app'.flightPath =
                        app.flightPath \o <<Pos(app.snap.Latitude, app.snap.Longitude)>>
          /\ (app.pc = "len" /\ app'.pc # "len")
               => app'.pc = IF Len(app.flightPath) > maxPathLen
                            THEN "trim" ELSE "follow"
          /\ (app.pc = "trim" /\ app'.pc # "trim")
               => /\ app'.pc = "follow"
                  /\ Len(app'.flightPath) = maxPathLen
                  /\ \A i \in 1..maxPathLen :
                        app'.flightPath[i] = app.seen[i + 1]
          /\ (Len(app'.flightPath) < Len(app.flightPath) /\ app'.pc = app.pc)
               => app'.flightPath = <<>>
         ]_vars

\* The onPress callback runs in this step.
Fired == app'.followAircraft # app.followAircraft

\* C30: the callback runs only in the debounce step of a poll that read
\* the pin at 0 with the button recorded as released, and records it as
\* pressed; it never runs a second time while the button stays down; the
\* recorded state changes only when more than 50 ms lie between the poll's
\* time and the last accepted change, which becomes the poll's time; no
\* callback runs once Stop has closed the stop channel; and from then on
\* the poll loop comes to its exit.
C30_GPIODebounce ==
    /\ [][/\ Fired => /\ gpio.loop = "read" /\ gpio.value = 0
                      /\ ~gpio.btn.lastState /\ gpio'.btn.lastState
                      /\ gpio.fires = 0
          /\ gpio'.btn.lastState # gpio.btn.lastState
               => /\ gpio.now - gpio.btn.lastChange > 50
                  /\ gpio'.btn.lastChange = gpio.now
                  /\ gpio'.btn.lastState = (gpio.value = 0)
          /\ (~gpio.btn.lastState /\ gpio'.btn.lastState) => Fired
          /\ Fired => gpio.stopChan = "open"
         ]_vars
    /\ (gpio.stopChan = "closed") ~> (gpio.loop = "exit")

====
